---- MODULE Spec2Model ----
(***************************************************************************)
(* ObbSegValidator (ultralytics/models/yolo/obb_seg/val.py): the matching  *)
(* and metrics engine of the rotated-box + mask validator.                 *)
(*                                                                         *)
(* Conventions                                                             *)
(*   - tensors are sequences (1-based); a mask is a function over the      *)
(*     pixel grid Pix with values in Nat (1 = foreground);                 *)
(*   - an IoU value is an exact fraction <<num, den>> with den > 0;        *)
(*   - IoU thresholds and confidences are in percent.                      *)
(***************************************************************************)
EXTENDS Integers, Sequences, FiniteSets, TLC

VARIABLES
    args,       \* self.args: save_json, save_txt, plots, single_cls, overlap_mask
    phase,      \* "constructed" until init_metrics has run, then "ready"
    process,    \* self.process, the mask decoder init_metrics selects
    seen,       \* self.seen
    stats,      \* self.stats: key -> list of per-sample entries
    jdict,      \* self.jdict
    confusion,  \* the calls made to confusion_matrix.process_batch
    calls,      \* per sample of the last update_metrics: the helpers it called
    fed,        \* the samples update_metrics has processed since init_metrics
    pb,         \* a _process_batch call made on its own: arguments and locals
    pool,       \* a pred_to_json call and its ThreadPool: tasks, workers, results
    ev          \* an eval_json call: the stats dict, the outcome, the log

vars == <<args, phase, process, seen, stats, jdict, confusion, calls, fed, pb, pool, ev>>
validator == <<args, phase, process, seen, stats, jdict, confusion, calls, fed>>

\* ------------------------------------------------------------------ bounds

\* at most MaxInst instances (predictions + ground truths) in a sample whose
\* boxes are matched, at most MaxMaskInst in one whose masks are matched
MaxInst == 4
MaxMaskInst == 3

\* a run processes at most MaxLoad images + predictions + ground truths
MaxLoad == 5

\* at most MaxDet detections in one pred_to_json call
MaxDet == 2

\* ------------------------------------------------------------- value domains

Classes == {0, 1}

\* the mask raster: Rows x Cols pixels
Rows == {1}
Cols == {1, 2}
Pix == Rows \X Cols
NPix == Cardinality(Pix)
NCols == Cardinality(Cols)

BinMasks == [Pix -> {0, 1}]

\* similarity values handed back by batch_probiou (a black box): 0, 0.6, 0.9
Zero == <<0, 1>>
SimLevels == {Zero, <<3, 5>>, <<9, 10>>}

\* number of IoU thresholds of a run (DetectionValidator: iouv.numel())
niou == 10

\* iouv = linspace(0.5, 0.95, 10), in percent
iouv == [k \in 1..niou |-> 50 + 5 * (k - 1)]

\* ------------------------------------------------------------------ helpers

RECURSIVE SumSeq(_)
SumSeq(s) == IF s = <<>> THEN 0 ELSE Head(s) + SumSeq(Tail(s))

\* a >= t for a fraction a and a threshold t in percent
FracGeqPct(a, t) == a[1] * 100 >= t * a[2]

\* a > b, a >= b for fractions
FracGt(a, b) == a[1] * b[2] > b[1] * a[2]
FracEq(a, b) == a[1] * b[2] = b[1] * a[2]

\* --------------------------------------------------------- Geometry kernel

\* tensor.view(n, -1) of one (H, W) mask: the pixels in row-major order
Flatten(m) ==
    [k \in 1..NPix |-> m[<<((k - 1) \div NCols) + 1, ((k - 1) % NCols) + 1>>]]

\* mask_iou without the 0/0 guard: 0/0 is left as the undefined <<0, 0>>
mask_iou_unguarded(mask1, mask2) ==
    [g \in 1..Len(mask1) |-> [p \in 1..Len(mask2) |->
        LET inter == SumSeq([k \in 1..NPix |-> mask1[g][k] * mask2[p][k]])
            union == SumSeq(mask1[g]) + SumSeq(mask2[p]) - inter
        IN  <<inter, union>>]]

\* mask_iou(mask1, mask2): mask1 (M, n), mask2 (N, n) flattened masks;
\* intersection = mask1 . mask2^T, union = area1 + area2 - intersection,
\* and 0/0 gives 0
mask_iou(mask1, mask2) ==
    [g \in 1..Len(mask1) |-> [p \in 1..Len(mask2) |->
        LET inter == SumSeq([k \in 1..NPix |-> mask1[g][k] * mask2[p][k]])
            union == SumSeq(mask1[g]) + SumSeq(mask2[p]) - inter
        IN  IF union = 0 THEN Zero ELSE <<inter, union>>]]

\* ------------------------------------------------------------------ Matcher

\* step 1: the entries <<gt, pred, similarity>> of the (M, N) matrix, the
\* similarity forced to 0 where the classes differ
ClassGated(pred_classes, true_classes, iou) ==
    {<<c[1], c[2], IF true_classes[c[1]] = pred_classes[c[2]]
                   THEN iou[c[1]][c[2]] ELSE Zero>> :
        c \in (1..Len(true_classes)) \X (1..Len(pred_classes))}

\* the entries with similarity >= t
Candidates(entries, t) == {c \in entries : FracGeqPct(c[3], t)}

\* the globally best candidate; ties go to the first pair in row-major order
BestPair(cand) ==
    CHOOSE c \in cand : \A d \in cand :
        \/ FracGt(c[3], d[3])
        \/ /\ FracEq(c[3], d[3])
           /\ (c[1] < d[1] \/ (c[1] = d[1] /\ c[2] <= d[2]))

\* a matcher that takes the best pair and removes only its prediction: the
\* ground truth stays available to the other predictions
RECURSIVE GreedyKeepGt(_)
GreedyKeepGt(cand) ==
    IF cand = {} THEN {}
    ELSE LET b == BestPair(cand)
         IN  {b} \cup GreedyKeepGt({c \in cand : c[2] # b[2]})

\* step 2: take the best pair, remove its ground truth and its prediction,
\* repeat on what is left
RECURSIVE GreedyAssign(_)
GreedyAssign(cand) ==
    IF cand = {} THEN {}
    ELSE LET b == BestPair(cand)
         IN  {b} \cup GreedyAssign({c \in cand : c[1] # b[1] /\ c[2] # b[2]})

\* step 3, match_predictions(pred_classes, true_classes, iou): the (N, niou)
\* matrix, True at [p, k] when prediction p is matched at threshold iouv[k]
match_predictions(pred_classes, true_classes, iou) ==
    LET entries == ClassGated(pred_classes, true_classes, iou)
        matched == UNION {{<<m[2], k>> : m \in GreedyAssign(Candidates(entries, iouv[k]))} :
                            k \in 1..niou}
    IN  [p \in 1..Len(pred_classes) |-> [k \in 1..niou |-> <<p, k>> \in matched]]

\* ------------------------------------------------------------ _process_batch

\* detections[:, 5]
ClsColumn(detections) == [p \in 1..Len(detections) |-> detections[p].cls]

\* the overlap expansion with the index starting at 0 instead of 1
ExpandOverlapFromZero(gt_masks, nl) ==
    LET index == [i \in 1..nl |-> (i - 1)]
        repeated == [i \in 1..nl |-> gt_masks[1]]
    IN  [i \in 1..nl |-> [x \in Pix |-> IF repeated[i][x] = index[i] THEN 1 ELSE 0]]

\* overlap branch: index = arange(nl) + 1; the (1, H, W) raster repeated nl
\* times; where(gt_masks == index, 1.0, 0.0)
ExpandOverlap(gt_masks, nl) ==
    LET index == [i \in 1..nl |-> (i - 1) + 1]
        repeated == [i \in 1..nl |-> gt_masks[1]]
    IN  [i \in 1..nl |-> [x \in Pix |-> IF repeated[i][x] = index[i] THEN 1 ELSE 0]]

Transpose(m, nrows, ncols) ==
    [p \in 1..ncols |-> [g \in 1..nrows |-> m[g][p]]]

\* _process_batch with the two arguments of the IoU call swapped: the matrix is
\* (N, M); it is accepted as (M, N) when M = N
process_batch_swapped(detections, probiou, gt_cls, pred_masks, gt_masks, overlap, masks) ==
    LET nl == Len(gt_cls)
        n == Len(detections)
        gtm == IF masks /\ overlap THEN ExpandOverlap(gt_masks, nl) ELSE gt_masks
        good == IF masks
                THEN mask_iou([g \in 1..Len(gtm) |-> Flatten(gtm[g])],
                              [p \in 1..Len(pred_masks) |-> Flatten(pred_masks[p])])
                ELSE probiou
        iou == IF nl = n THEN Transpose(good, nl, n) ELSE good
    IN  [gt_masks |-> gtm, iou |-> iou,
         correct |-> match_predictions(ClsColumn(detections), gt_cls, iou)]

\* _process_batch(detections, gt_bboxes, gt_cls, pred_masks, gt_masks, overlap,
\* masks): its locals at the return. probiou stands for the value of
\* batch_probiou(gt_bboxes, detections[:, :4] + angle), an (M, N) matrix.
_process_batch(detections, probiou, gt_cls, pred_masks, gt_masks, overlap, masks) ==
    LET nl == Len(gt_cls)
        gtm == IF masks /\ overlap THEN ExpandOverlap(gt_masks, nl) ELSE gt_masks
        iou == IF masks
               THEN mask_iou([g \in 1..Len(gtm) |-> Flatten(gtm[g])],
                             [p \in 1..Len(pred_masks) |-> Flatten(pred_masks[p])])
               ELSE probiou
    IN  [gt_masks |-> gtm, iou |-> iou,
         correct |-> match_predictions(ClsColumn(detections), gt_cls, iou)]

\* ------------------------------------------------------------------ samples

\* detections of a sample: NMS returns them by descending confidence; row p is
\* [box (4), conf, cls, mask coefficients, angle]
ConfOf(p) == 95 - 10 * (p - 1)
BoxOf(p) == <<20 * p, 10 * p, 20 * p + 8, 10 * p + 6>>
Detections(n) ==
    {[p \in 1..n |-> [conf |-> ConfOf(p), cls |-> c[p], box |-> BoxOf(p)]] :
        c \in [1..n -> Classes]}

\* the samples of a validation set with weight 1 + npr + nl <= budget; the
\* geometry of a sample follows from its shape: prediction p lies on ground
\* truth p (box similarity 0.9) and touches the others (0.6); ground truth g
\* owns pixel g of the raster; the decoded mask of prediction p is the first
\* pixel (p odd) or the whole row (p even).
GtPixels(g) == {x \in Pix : x[2] = g}
SampleOf(det, gt_cls, overlap) ==
    [pred |-> det,
     cls |-> gt_cls,
     probiou |-> [g \in 1..Len(gt_cls) |-> [p \in 1..Len(det) |->
                    IF g = p THEN <<9, 10>> ELSE <<3, 5>>]],
     pred_masks |-> [p \in 1..Len(det) |-> [x \in Pix |->
                    IF x[2] = 1 \/ p % 2 = 0 THEN 1 ELSE 0]],
     masks |-> IF overlap
               THEN <<[x \in Pix |-> IF x[2] <= Len(gt_cls) THEN x[2] ELSE 0]>>
               ELSE [g \in 1..Len(gt_cls) |-> [x \in Pix |->
                        IF x \in GtPixels(g) THEN 1 ELSE 0]],
     im_file |-> "42"]

Weight(s) == 1 + Len(s.pred) + Len(s.cls)

Samples(budget, overlap) ==
    UNION {{SampleOf(det, gt_cls, overlap) :
                det \in Detections(sh[1]), gt_cls \in [1..sh[2] -> Classes]} :
           sh \in {x \in (0..budget) \X (0..budget) : 1 + x[1] + x[2] <= budget}}

RECURSIVE Load(_)
Load(samples) == IF samples = <<>> THEN 0 ELSE Weight(Head(samples)) + Load(Tail(samples))

\* ---------------------------------------------------------- export to JSON

\* class_map (DetectionValidator.init_metrics): COCO-80 index -> COCO-91 id
class_map == [c \in Classes |-> c + 1]

\* Path(filename).stem; int(stem) if stem.isnumeric() else stem
ImageId(stem) == IF stem = "42" THEN 42 ELSE stem

\* ops.xyxy2xywh(predn[:, :4]), then box[:, :2] -= box[:, 2:] / 2
xyxy2xywh(b) == <<(b[1] + b[3]) \div 2, (b[2] + b[4]) \div 2, b[3] - b[1], b[4] - b[2]>>
TopLeft(b) == <<b[1] - b[3] \div 2, b[2] - b[4] \div 2, b[3], b[4]>>

NRows == Cardinality(Rows)

\* the pixels of a mask in column-major order (order="F")
FlattenF(m) ==
    [k \in 1..NPix |-> m[<<((k - 1) % NRows) + 1, ((k - 1) \div NRows) + 1>>]]

\* the run lengths of a 0/1 vector, the first run being one of zeros
RECURSIVE Runs(_, _)
Runs(v, bit) ==
    IF v = <<>> THEN <<>>
    ELSE LET n == IF \E i \in 1..Len(v) : v[i] # bit
                  THEN (CHOOSE i \in 1..Len(v) : v[i] # bit /\ \A j \in 1..(i - 1) : v[j] = bit) - 1
                  ELSE Len(v)
         IN  <<n>> \o Runs(SubSeq(v, n + 1, Len(v)), 1 - bit)

\* single_encode(x): pycocotools encode of one (H, W) mask, counts as a list
single_encode(x) == [size |-> <<NRows, NCols>>, counts |-> Runs(FlattenF(x), 0)]

\* the entry pred_to_json appends for detection row i
JsonEntry(predn, filename, rles, i) ==
    [image_id |-> ImageId(filename),
     category_id |-> class_map[predn[i].cls],
     bbox |-> TopLeft(xyxy2xywh(predn[i].box)),
     score |-> predn[i].conf,
     segmentation |-> rles[i]]

\* pred_to_json(predn, filename, pred_masks), from the call to the return
pred_to_json(jd, predn, filename, pred_masks) ==
    LET rles == [i \in 1..Len(pred_masks) |-> single_encode(pred_masks[i])]
    IN  jd \o [i \in 1..Len(predn) |-> JsonEntry(predn, filename, rles, i)]

\* ------------------------------------------------------------ update_metrics

StatKeys == {"tp_m", "tp", "conf", "pred_cls", "target_cls", "target_img"}

\* torch.zeros(npr, niou, dtype=bool)
ZerosBool(npr) == [p \in 1..npr |-> [k \in 1..niou |-> FALSE]]

\* cls.unique(): the distinct classes, ascending
RECURSIVE SortedSeq(_)
SortedSeq(S) ==
    IF S = {} THEN <<>>
    ELSE LET m == CHOOSE x \in S : \A y \in S : x <= y
         IN  <<m>> \o SortedSeq(S \ {m})
Unique(cls) == SortedSeq({cls[i] : i \in 1..Len(cls)})

\* _prepare_batch(si, batch): the ground truth of sample si in native space
_prepare_batch(s) == [cls |-> s.cls, bbox |-> s.probiou, masks |-> s.masks]

\* _prepare_pred(pred, pbatch, proto): predn = pred.clone() rescaled, and the
\* masks self.process decodes
_prepare_pred(pred, s) == [predn |-> pred, pred_masks |-> s.pred_masks]

\* the append loop skipping a sample that has no labels
AppendStatLabelledOnly(st, stat) ==
    IF Len(stat["target_cls"]) > 0
    THEN [k \in DOMAIN st |-> Append(st[k], stat[k])]
    ELSE st

\* for k in self.stats.keys(): self.stats[k].append(stat[k])
AppendStat(st, stat) == [k \in DOMAIN st |-> Append(st[k], stat[k])]

\* the validator fields update_metrics writes
Fields(sn, st, jd, cm) == [seen |-> sn, stats |-> st, jdict |-> jd, confusion |-> cm]

\* the zero-prediction branch as a bare continue
no_pred_branch_continue(v, stat, cls, a) == v

\* the zero-prediction branch recording the sample whether or not it has labels
no_pred_branch_always(v, stat, cls, a) ==
    Fields(v.seen, AppendStat(v.stats, stat), v.jdict, v.confusion)

\* if npr == 0: record the ground truth when there is some, then continue
no_pred_branch(v, stat, cls, a) ==
    IF Len(cls) > 0
    THEN Fields(v.seen, AppendStat(v.stats, stat), v.jdict,
                IF a.plots
                THEN Append(v.confusion, [detections |-> "None", gt_cls |-> cls])
                ELSE v.confusion)
    ELSE v

\* one iteration of the loop of update_metrics, for sample s: the validator
\* fields after it, and the helpers it called
sample_step(v, s, a) ==
    LET v1 == [v EXCEPT !.seen = v.seen + 1]
        npr == Len(s.pred)
        stat0 == [conf |-> <<>>, pred_cls |-> <<>>,
                  tp |-> ZerosBool(npr), tp_m |-> ZerosBool(npr)]
        pbatch == _prepare_batch(s)
        cls == pbatch.cls
        bbox == pbatch.bbox
        nl == Len(cls)
        stat1 == [conf |-> stat0.conf, pred_cls |-> stat0.pred_cls,
                  tp |-> stat0.tp, tp_m |-> stat0.tp_m,
                  target_cls |-> cls, target_img |-> Unique(cls)]
    IN  IF npr = 0
        THEN [out |-> no_pred_branch(v1, stat1, cls, a),
              calls |-> <<"_prepare_batch">>]
        ELSE LET gt_masks == pbatch.masks
                 pred == IF a.single_cls
                         THEN [p \in 1..npr |-> [s.pred[p] EXCEPT !.cls = 0]]
                         ELSE s.pred
                 pp == _prepare_pred(pred, s)
                 predn == pp.predn
                 pred_masks == pp.pred_masks
                 stat2 == [stat1 EXCEPT !.conf = [p \in 1..npr |-> predn[p].conf],
                                        !.pred_cls = [p \in 1..npr |-> predn[p].cls]]
                 stat3 == IF nl > 0
                          THEN [stat2 EXCEPT
                                  !.tp = _process_batch(predn, bbox, cls, <<>>, <<>>,
                                                        FALSE, FALSE).correct,
                                  !.tp_m = _process_batch(predn, bbox, cls, pred_masks,
                                                          gt_masks, a.overlap_mask, TRUE).correct]
                          ELSE stat2
             IN  [out |-> Fields(v1.seen,
                                 AppendStat(v1.stats, stat3),
                                 IF a.save_json
                                 THEN pred_to_json(v1.jdict, predn, s.im_file, pred_masks)
                                 ELSE v1.jdict,
                                 IF a.plots
                                 THEN Append(v1.confusion, [detections |-> predn, gt_cls |-> cls])
                                 ELSE v1.confusion),
                  calls |-> <<"_prepare_batch", "_prepare_pred">>
                            \o (IF nl > 0 THEN <<"_process_batch", "_process_batch">> ELSE <<>>)
                            \o (IF a.save_json THEN <<"pred_to_json">> ELSE <<>>)]

\* for si, (pred, proto) in enumerate(zip(preds[0], preds[1])): ...
RECURSIVE RunBatch(_, _, _)
RunBatch(v, batch, a) ==
    IF batch = <<>> THEN [out |-> v, calls |-> <<>>]
    ELSE LET r == sample_step(v, Head(batch), a)
             rest == RunBatch(r.out, Tail(batch), a)
         IN  [out |-> rest.out, calls |-> <<r.calls>> \o rest.calls]

\* --------------------------------------------------------------- the validator

Args == [save_json : BOOLEAN, save_txt : BOOLEAN, plots : BOOLEAN,
         single_cls : BOOLEAN, overlap_mask : BOOLEAN]

\* the validator as __init__ leaves it
Constructed ==
    /\ phase = "constructed"
    /\ process = "None"
    /\ seen = 0
    /\ stats = <<>>
    /\ jdict = <<>>
    /\ confusion = <<>>
    /\ calls = <<>>
    /\ fed = <<>>

NoCall == [called |-> TRUE]
NoPool == [pc |-> "none"]
NoEval == [pc |-> "none"]

Init ==
    /\ args \in Args
    /\ Constructed
    /\ pb = NoCall /\ pool = NoPool /\ ev = NoEval

\* init_metrics with the stats of DetectionValidator kept: no "tp_m" key
init_metrics_no_tp_m ==
    /\ phase' = "ready"
    /\ process' = IF args.save_json \/ args.save_txt
                  THEN "process_mask_native" ELSE "process_mask_obb_seg"
    /\ stats' = [k \in StatKeys \ {"tp_m"} |-> <<>>]
    /\ seen' = 0
    /\ jdict' = <<>>
    /\ confusion' = <<>>
    /\ calls' = <<>>
    /\ fed' = <<>>
    /\ UNCHANGED <<args, pb, pool, ev>>

\* init_metrics(model): super().init_metrics resets seen, jdict and the
\* confusion matrix; the decoder is selected; self.stats gets its six keys
init_metrics ==
    /\ phase' = "ready"
    /\ process' = IF args.save_json \/ args.save_txt
                  THEN "process_mask_native" ELSE "process_mask_obb_seg"
    /\ stats' = [k \in StatKeys |-> <<>>]
    /\ seen' = 0
    /\ jdict' = <<>>
    /\ confusion' = <<>>
    /\ calls' = <<>>
    /\ fed' = <<>>
    /\ UNCHANGED <<args, pb, pool, ev>>

\* update_metrics(preds, batch) on a batch of one or two samples
update_metrics ==
    /\ phase = "ready"
    /\ \E s1 \in Samples(MaxLoad - Load(fed), args.overlap_mask) :
         \E batch \in {<<s1>>} \cup
                {<<s1, s2>> : s2 \in Samples(MaxLoad - Load(fed) - Weight(s1), args.overlap_mask)} :
            LET r == RunBatch(Fields(seen, stats, jdict, confusion), batch, args)
            IN  /\ seen' = r.out.seen
                /\ stats' = r.out.stats
                /\ jdict' = r.out.jdict
                /\ confusion' = r.out.confusion
                /\ calls' = r.calls
                /\ fed' = fed \o batch
    /\ UNCHANGED <<args, phase, process, pb, pool, ev>>

Next == init_metrics \/ update_metrics

Spec == Init /\ [][Next]_vars

\* ------------------------------------------- _process_batch on its own

Shapes(max) == {s \in (1..max) \X (1..max) : s[1] + s[2] <= max}

\* the arguments of a call, before it is made
CallArgs(masks, overlap, det, gt_cls, probiou, pred_masks, gt_in) ==
    [called |-> FALSE, masks |-> masks, overlap |-> overlap,
     detections |-> det, gt_cls |-> gt_cls, probiou |-> probiou,
     pred_masks |-> pred_masks, gt_in |-> gt_in,
     gt_masks |-> <<>>, iou |-> <<>>, correct |-> <<>>]

\* a validator that is not running
Idle == args = [save_json |-> FALSE, save_txt |-> FALSE, plots |-> FALSE,
                single_cls |-> FALSE, overlap_mask |-> FALSE] /\ Constructed

\* the box call of update_metrics, _process_batch(predn, bbox, cls), on every
\* input within the bounds
BoxInit ==
    /\ Idle /\ pool = NoPool /\ ev = NoEval
    /\ \E s \in Shapes(MaxInst) :
         \E det \in Detections(s[1]), gt_cls \in [1..s[2] -> Classes],
            probiou \in [1..s[2] -> [1..s[1] -> SimLevels]] :
           pb = CallArgs(FALSE, FALSE, det, gt_cls, probiou, <<>>, <<>>)

\* the mask call, _process_batch(predn, bbox, cls, pred_masks, gt_masks,
\* overlap_mask, masks=True), on every input within the bounds; the ground
\* truth is one raster of instance indices (overlap) or one mask per instance
MaskInit ==
    /\ Idle /\ pool = NoPool /\ ev = NoEval
    /\ \E s \in Shapes(MaxMaskInst), overlap \in BOOLEAN :
         \E det \in Detections(s[1]), gt_cls \in [1..s[2] -> Classes],
            pred_masks \in [1..s[1] -> BinMasks],
            gt_in \in (IF overlap THEN [1..1 -> [Pix -> 0..s[2]]]
                                  ELSE [1..s[2] -> BinMasks]) :
           pb = CallArgs(TRUE, overlap, det, gt_cls, <<>>, pred_masks, gt_in)

ProcessBatch ==
    /\ ~pb.called
    /\ LET r == _process_batch(pb.detections, pb.probiou, pb.gt_cls, pb.pred_masks,
                               pb.gt_in, pb.overlap, pb.masks)
       IN  pb' = [pb EXCEPT !.called = TRUE, !.gt_masks = r.gt_masks,
                            !.iou = r.iou, !.correct = r.correct]
    /\ UNCHANGED <<validator, pool, ev>>

SpecBatch == BoxInit /\ [][ProcessBatch]_vars

SpecMask == MaskInit /\ [][ProcessBatch]_vars

\* ------------------------------------------- pred_to_json and its ThreadPool

\* the worker threads of ThreadPool(NUM_THREADS)
Workers == {1, 2}

Stems == {"42", "img"}

\* an entry left in jdict by an earlier sample
EarlierEntry ==
    [image_id |-> 7, category_id |-> 1, bbox |-> <<0, 0, 2, 2>>, score |-> 50,
     segmentation |-> [size |-> <<NRows, NCols>>, counts |-> <<NPix>>]]

\* the place of a result not delivered yet
Pending == [size |-> <<0, 0>>, counts |-> <<>>]

\* update_metrics is about to call pred_to_json(predn, filename, pred_masks)
\* for a sample with at least one detection
JsonInit ==
    /\ args = [save_json |-> TRUE, save_txt |-> FALSE, plots |-> FALSE,
               single_cls |-> FALSE, overlap_mask |-> FALSE]
    /\ phase = "ready" /\ process = "process_mask_native"
    /\ seen = 1 /\ stats = [k \in StatKeys |-> <<>>]
    /\ jdict \in {<<>>, <<EarlierEntry>>}
    /\ confusion = <<>> /\ calls = <<>> /\ fed = <<>>
    /\ pb = NoCall /\ ev = NoEval
    /\ \E n \in 1..MaxDet :
         \E predn \in Detections(n), pred_masks \in [1..n -> BinMasks], stem \in Stems :
           pool = [pc |-> "call", predn |-> predn, filename |-> stem,
                   pred_masks |-> pred_masks, base |-> Len(jdict),
                   queue |-> <<>>, busy |-> [w \in Workers |-> 0],
                   rles |-> [i \in 1..n |-> Pending], finished |-> <<>>]

\* results kept in the order the workers deliver them
PoolStoreOnArrival(rles, i, rle) ==
    LET free == CHOOSE j \in 1..Len(rles) :
                    rles[j] = Pending /\ \A h \in 1..(j - 1) : rles[h] # Pending
    IN  [rles EXCEPT ![free] = rle]

\* pool.map gathers the result of task i at position i of the list it returns
PoolStore(rles, i, rle) == [rles EXCEPT ![i] = rle]

\* rles = pool.map(single_encode, pred_masks): one task per mask is queued
PoolMap ==
    /\ pool.pc = "call"
    /\ pool' = [pool EXCEPT !.pc = "map",
                            !.queue = [i \in 1..Len(pool.pred_masks) |-> i]]
    /\ UNCHANGED <<validator, pb, ev>>

\* an idle worker takes the next task
WorkerTake(w) ==
    /\ pool.pc = "map"
    /\ pool.busy[w] = 0
    /\ pool.queue # <<>>
    /\ pool' = [pool EXCEPT !.busy[w] = Head(pool.queue), !.queue = Tail(pool.queue)]
    /\ UNCHANGED <<validator, pb, ev>>

\* a worker ends single_encode on its mask and delivers the result
WorkerFinish(w) ==
    /\ pool.pc = "map"
    /\ pool.busy[w] # 0
    /\ pool' = [pool EXCEPT
                  !.rles = PoolStore(pool.rles, pool.busy[w],
                                     single_encode(pool.pred_masks[pool.busy[w]])),
                  !.finished = Append(pool.finished, pool.busy[w]),
                  !.busy[w] = 0]
    /\ UNCHANGED <<validator, pb, ev>>

\* pool.map returns once every task is done; the loop appends one entry per
\* detection row
PredToJsonReturn ==
    /\ pool.pc = "map"
    /\ Len(pool.finished) = Len(pool.pred_masks)
    /\ jdict' = jdict \o [i \in 1..Len(pool.predn) |->
                            JsonEntry(pool.predn, pool.filename, pool.rles, i)]
    /\ pool' = [pool EXCEPT !.pc = "done"]
    /\ UNCHANGED <<args, phase, process, seen, stats, confusion, calls, fed, pb, ev>>

JsonNext ==
    \/ PoolMap
    \/ \E w \in Workers : WorkerTake(w)
    \/ \E w \in Workers : WorkerFinish(w)
    \/ PredToJsonReturn

SpecJson == JsonInit /\ [][JsonNext]_vars

\* ------------------------------------------------------------------ eval_json

\* self.metrics.keys, in the column order of get_desc
keys == <<"metrics/precision(B)", "metrics/recall(B)", "metrics/mAP50(B)", "metrics/mAP50-95(B)",
          "metrics/precision(M)", "metrics/recall(M)", "metrics/mAP50(M)", "metrics/mAP50-95(M)">>
MetricKeys == {keys[i] : i \in 1..Len(keys)}

\* keys[idx] for a 0-based idx
Key(idx) == keys[idx + 1]

\* what can go wrong in the try block, in the order of the statements, and the
\* exception it raises
Failures == {"dependency", "anno_file", "pred_file", "load", "eval_bbox", "eval_segm"}
Raises(failure) ==
    CASE failure = "dependency" -> "ModuleNotFoundError"
      [] failure \in {"anno_file", "pred_file"} -> "AssertionError"
      [] OTHER -> "Exception"

\* a handler for the missing dependency only
CaughtImportOnly(exc) == exc \in {"ImportError", "ModuleNotFoundError"}

\* except Exception as e: every exception class raised here derives from it
Caught(exc) == exc \in {"Exception", "AssertionError", "ImportError", "ModuleNotFoundError"}

\* the assignment with the two targets in the order of eval.stats
eval_update_swapped(st, i, estats) ==
    LET idx == i * 4 + 2
    IN  [st EXCEPT ![Key(idx)] = estats[1], ![Key(idx + 1)] = estats[2]]

\* idx = i * 4 + 2; stats[keys[idx + 1]], stats[keys[idx]] = eval.stats[:2]
eval_update(st, i, estats) ==
    LET idx == i * 4 + 2
    IN  [st EXCEPT ![Key(idx + 1)] = estats[1], ![Key(idx)] = estats[2]]

\* the stats dict when the try block is left: after a failure, or at its end
TryBlock(st, failure, ext) ==
    IF failure \in {"dependency", "anno_file", "pred_file", "load", "eval_bbox"} THEN st
    ELSE IF failure = "eval_segm" THEN eval_update(st, 0, ext[1])
    ELSE eval_update(eval_update(st, 0, ext[1]), 1, ext[2])

MetricValues == {40, 70}
ExtValues == {<<45, 70>>, <<60, 75>>}

\* the internal metrics of a finished run: precision and recall, and the mAP
\* values of the box and mask tasks
InternalStats ==
    {[k \in MetricKeys |->
        IF k = Key(2) THEN m[1] ELSE IF k = Key(3) THEN m[2]
        ELSE IF k = Key(6) THEN m[3] ELSE IF k = Key(7) THEN m[4] ELSE 80] :
     m \in [1..4 -> MetricValues]}

\* the validator after a run over one batch
AfterRun(a, batch) ==
    RunBatch(Fields(0, [k \in StatKeys |-> <<>>], <<>>, <<>>), batch, a).out

\* a run has ended and eval_json(stats) is about to be called
EvalInit ==
    /\ args \in {a \in Args : ~a.save_txt /\ ~a.plots /\ ~a.single_cls /\ ~a.overlap_mask}
    /\ phase = "ready"
    /\ process = (IF args.save_json THEN "process_mask_native" ELSE "process_mask_obb_seg")
    /\ \E batch \in {<<>>} \cup {<<s>> : s \in Samples(3, FALSE)} :
         LET v == AfterRun(args, batch)
         IN  /\ seen = v.seen /\ stats = v.stats /\ jdict = v.jdict
             /\ confusion = v.confusion /\ fed = batch
    /\ calls = <<>>
    /\ pb = NoCall /\ pool = NoPool
    /\ \E st \in InternalStats, coco \in BOOLEAN :
         ev = [pc |-> "call", is_coco |-> coco, stats |-> st, given |-> st,
               attempted |-> FALSE, failure |-> "none", ext |-> <<>>,
               warnings |-> 0, ret |-> "None",
               acc |-> [stats |-> stats, seen |-> seen, jdict |-> jdict]]

\* eval_json(stats): the cross-check is skipped, or runs to its end, or fails at
\* one of its statements
eval_json ==
    /\ ev.pc = "call"
    /\ IF args.save_json /\ ev.is_coco /\ Len(jdict) > 0
       THEN \E failure \in Failures \cup {"none"}, ext \in [1..2 -> ExtValues] :
              LET st == TryBlock(ev.stats, failure, ext)
              IN  IF failure = "none"
                  THEN ev' = [ev EXCEPT !.pc = "returned", !.attempted = TRUE, !.ext = ext,
                                        !.stats = st, !.ret = st]
                  ELSE IF Caught(Raises(failure))
                  THEN ev' = [ev EXCEPT !.pc = "returned", !.attempted = TRUE, !.ext = ext,
                                        !.failure = failure, !.stats = st, !.ret = st,
                                        !.warnings = ev.warnings + 1]
                  ELSE ev' = [ev EXCEPT !.pc = "raised", !.attempted = TRUE, !.ext = ext,
                                        !.failure = failure, !.stats = st]
       ELSE ev' = [ev EXCEPT !.pc = "returned", !.ret = ev.stats]
    /\ UNCHANGED <<validator, pb, pool>>

SpecEval == EvalInit /\ [][eval_json]_vars

\* ==================================================================== claims

\* a sample that must leave a record: it has a prediction or a ground truth
HasInstance(s) == Len(s.pred) > 0 \/ Len(s.cls) > 0
Recorded == SelectSeq(fed, HasInstance)

\* every key of self.stats is there and holds one entry per recorded sample
OneEntryPerSample ==
    /\ DOMAIN stats = StatKeys
    /\ \A k \in StatKeys : Len(stats[k]) = Len(Recorded)

AllFalse(m, npr) ==
    /\ Len(m) = npr
    /\ \A p \in 1..npr : Len(m[p]) = niou /\ \A k \in 1..niou : m[p][k] = FALSE

\* the samples of the last update_metrics call
LastBatch == SubSeq(fed, Len(fed) - Len(calls) + 1, Len(fed))

Called(i, name) == \E j \in 1..Len(calls[i]) : calls[i][j] = name

\* C3: a sample with N > 0 predictions and no ground truth leaves a record
\* whose box and mask correctness matrices are N x niou and all False.
C3_NoGroundTruth ==
    phase = "ready" =>
        /\ OneEntryPerSample
        /\ \A r \in 1..Len(Recorded) :
              (Len(Recorded[r].pred) > 0 /\ Len(Recorded[r].cls) = 0) =>
                  /\ AllFalse(stats["tp"][r], Len(Recorded[r].pred))
                  /\ AllFalse(stats["tp_m"][r], Len(Recorded[r].pred))

\* the last sample processed has two predictions and no ground truth, and its
\* record is the last one
C3_Witness ==
    /\ phase = "ready" /\ fed # <<>>
    /\ Len(fed[Len(fed)].pred) = 2 /\ Len(fed[Len(fed)].cls) = 0
    /\ Len(stats["tp"]) = Len(Recorded)
    /\ AllFalse(stats["tp"][Len(stats["tp"])], 2)

\* C4: a sample with no prediction and some ground truth skips _prepare_pred
\* and _process_batch and leaves a record with empty conf and pred_cls, empty
\* correctness matrices and the ground-truth classes as target_cls.
C4_NoPrediction ==
    phase = "ready" =>
        /\ OneEntryPerSample
        /\ \A r \in 1..Len(Recorded) :
              (Len(Recorded[r].pred) = 0 /\ Len(Recorded[r].cls) > 0) =>
                  /\ stats["conf"][r] = <<>>
                  /\ stats["pred_cls"][r] = <<>>
                  /\ stats["tp"][r] = <<>>
                  /\ stats["tp_m"][r] = <<>>
                  /\ stats["target_cls"][r] = Recorded[r].cls
        /\ \A i \in 1..Len(calls) :
              (Len(LastBatch[i].pred) = 0 /\ Len(LastBatch[i].cls) > 0) =>
                  ~Called(i, "_prepare_pred") /\ ~Called(i, "_process_batch")

\* the last sample processed has no prediction and two ground truths, and its
\* record is the last one
C4_Witness ==
    /\ phase = "ready" /\ fed # <<>>
    /\ Len(fed[Len(fed)].pred) = 0 /\ Len(fed[Len(fed)].cls) = 2
    /\ Len(stats["target_cls"]) = Len(Recorded)
    /\ Len(stats["target_cls"][Len(Recorded)]) = 2
    /\ stats["conf"][Len(Recorded)] = <<>>

\* C5: after init_metrics and any update_metrics calls the six keys of
\* self.stats hold the same number of entries, and in entry r conf, pred_cls,
\* tp and tp_m have one row per prediction of the sample, row p being the one
\* of prediction p.
C5_RowConsistent ==
    phase = "ready" =>
        /\ OneEntryPerSample
        /\ \A r \in 1..Len(Recorded) :
              LET s == Recorded[r]
                  npr == Len(s.pred)
              IN  /\ Len(stats["conf"][r]) = npr
                  /\ Len(stats["pred_cls"][r]) = npr
                  /\ Len(stats["tp"][r]) = npr
                  /\ Len(stats["tp_m"][r]) = npr
                  /\ \A p \in 1..npr :
                        /\ stats["conf"][r][p] = s.pred[p].conf
                        /\ stats["pred_cls"][r][p] = (IF args.single_cls THEN 0 ELSE s.pred[p].cls)
                        /\ \A k \in 1..niou : stats["tp"][r][p][k] =>
                              \E g \in 1..Len(s.cls) :
                                  /\ s.cls[g] = stats["pred_cls"][r][p]
                                  /\ FracGeqPct(s.probiou[g][p], iouv[k])

\* an empty sample and then a sample with two predictions have been processed;
\* the one record has two rows, and only the second prediction is a true
\* positive at 0.5
C5_Witness ==
    /\ phase = "ready"
    /\ Len(fed) = 2 /\ ~HasInstance(fed[1]) /\ Len(fed[2].pred) = 2
    /\ Len(stats["tp"]) = 1
    /\ Len(stats["tp"][1]) = 2
    /\ ~stats["tp"][1][1][1] /\ stats["tp"][1][2][1]

\* the foreground of a binary mask
Fg(m) == {x \in Pix : m[x] = 1}

\* the similarity of ground truth g and prediction p of the call in pb, from its
\* arguments: the box similarity handed in, or |A n B| / |A u B| of the two masks
ArgSim(g, p) ==
    IF pb.masks
    THEN LET A == IF pb.overlap THEN {x \in Pix : pb.gt_in[1][x] = g} ELSE Fg(pb.gt_in[g])
             B == Fg(pb.pred_masks[p])
         IN  IF A \cup B = {} THEN Zero
             ELSE <<Cardinality(A \cap B), Cardinality(A \cup B)>>
    ELSE pb.probiou[g][p]

PbPreds == 1..Len(pb.detections)
PbGts == 1..Len(pb.gt_cls)

\* ground truths that prediction p may be matched to at threshold k
Compatible(p, k) ==
    {g \in PbGts : /\ pb.gt_cls[g] = pb.detections[p].cls
                   /\ FracGeqPct(ArgSim(g, p), iouv[k])}

TruePreds(k) == {p \in PbPreds : pb.correct[p][k]}

Min(a, b) == IF a <= b THEN a ELSE b

\* C1: at every threshold the predictions marked True can be paired with
\* distinct ground-truth instances (same class, similarity >= threshold), one
\* ground truth per prediction and one prediction per ground truth; so a
\* column holds at most min(M, N) True entries.
C1_OneToOne ==
    pb.called =>
        \A k \in 1..niou :
            /\ \E f \in [TruePreds(k) -> PbGts] :
                  /\ \A p \in TruePreds(k) : f[p] \in Compatible(p, k)
                  /\ \A p, q \in TruePreds(k) : p # q => f[p] # f[q]
            /\ Cardinality(TruePreds(k)) <= Min(Len(pb.gt_cls), Len(pb.detections))

\* two predictions compete for one ground truth: both are compatible with it
\* and with nothing else, one is marked True and the other is not
C1_Witness ==
    /\ pb.called
    /\ \E k \in 1..niou, p, q \in PbPreds, g \in PbGts :
          /\ p # q
          /\ Compatible(p, k) = {g} /\ Compatible(q, k) = {g}
          /\ pb.correct[p][k] /\ ~pb.correct[q][k]

\* C2: class gating. True at [p, k] needs a ground truth of the class of
\* prediction p with similarity >= iouv[k]; a prediction whose class is the
\* class of no ground truth is False at every threshold.
C2_ClassGating ==
    pb.called =>
        \A p \in PbPreds :
            /\ \A k \in 1..niou : pb.correct[p][k] => Compatible(p, k) # {}
            /\ (\A g \in PbGts : pb.gt_cls[g] # pb.detections[p].cls)
                  => \A k \in 1..niou : ~pb.correct[p][k]

\* a prediction overlaps a ground truth of another class at 0.9 and is False at
\* every threshold, while another prediction of the sample is True
C2_Witness ==
    /\ pb.called
    /\ \E p, q \in PbPreds :
          /\ \A g \in PbGts : pb.gt_cls[g] # pb.detections[p].cls
          /\ \E g \in PbGts : ArgSim(g, p) = <<9, 10>>
          /\ \A k \in 1..niou : ~pb.correct[p][k]
          /\ pb.correct[q][1]

\* C6: the overlap expansion gives nl binary masks, mask i (0-based) being 1
\* exactly where the raster holds i + 1; two distinct masks are disjoint and a
\* background pixel (0) is in no mask.
C6_OverlapExpansion ==
    (pb.called /\ pb.masks /\ pb.overlap) =>
        /\ Len(pb.gt_masks) = Len(pb.gt_cls)
        /\ \A i \in 0..(Len(pb.gt_cls) - 1) :
              /\ pb.gt_masks[i + 1] \in BinMasks
              /\ \A x \in Pix : (pb.gt_masks[i + 1][x] = 1) <=> (pb.gt_in[1][x] = i + 1)
        /\ \A i, j \in 1..Len(pb.gt_masks) :
              i # j => Fg(pb.gt_masks[i]) \cap Fg(pb.gt_masks[j]) = {}
        /\ \A x \in Pix :
              pb.gt_in[1][x] = 0 => \A i \in 1..Len(pb.gt_masks) : pb.gt_masks[i][x] = 0

\* a 2-instance raster, value 1 marking instance 0 and value 2 instance 1,
\* expanded into two non-empty masks
C6_Witness ==
    /\ pb.called /\ pb.masks /\ pb.overlap
    /\ Len(pb.gt_cls) = 2
    /\ \E x, y \in Pix : pb.gt_in[1][x] = 1 /\ pb.gt_in[1][y] = 2
    /\ Fg(pb.gt_masks[1]) # {} /\ Fg(pb.gt_masks[2]) # {}

\* C10: the mask IoU of the call: identical masks of area A > 0 give exactly 1
\* (intersection = union), disjoint non-empty masks give 0, two empty masks
\* give 0 and not a division by zero.
C10_MaskIoU ==
    (pb.called /\ pb.masks) =>
        \A g \in 1..Len(pb.gt_masks), p \in 1..Len(pb.pred_masks) :
            LET A == Fg(pb.gt_masks[g])
                B == Fg(pb.pred_masks[p])
                v == pb.iou[g][p]
            IN  /\ v[2] > 0
                /\ (A = B /\ A # {}) => v[1] = v[2]
                /\ (A \cap B = {} /\ A # {} /\ B # {}) => v[1] = 0
                /\ (A = {} /\ B = {}) => v[1] = 0

\* one call meets an identical pair of area > 0 (IoU 1) and a disjoint
\* non-empty pair (IoU 0)
C10_Witness ==
    /\ pb.called /\ pb.masks
    /\ \E g \in 1..Len(pb.gt_masks), p \in 1..Len(pb.pred_masks) :
          Fg(pb.gt_masks[g]) = Fg(pb.pred_masks[p]) /\ Fg(pb.gt_masks[g]) # {}
          /\ pb.iou[g][p][1] = pb.iou[g][p][2]
    /\ \E g \in 1..Len(pb.gt_masks), p \in 1..Len(pb.pred_masks) :
          Fg(pb.gt_masks[g]) \cap Fg(pb.pred_masks[p]) = {}
          /\ Fg(pb.gt_masks[g]) # {} /\ Fg(pb.pred_masks[p]) # {}
          /\ pb.iou[g][p][1] = 0

\* the 0/1 vector a list of run lengths stands for, the first run being zeros
RECURSIVE Expand(_, _)
Expand(counts, bit) ==
    IF counts = <<>> THEN <<>>
    ELSE [k \in 1..Head(counts) |-> bit] \o Expand(Tail(counts), 1 - bit)

\* C7: when pred_to_json returns, whatever the order in which the pool workers
\* took and finished the masks, jdict has grown by exactly one entry per
\* detection, in row order, and entry i carries the class, score and top-left
\* xywh box of detection row i together with run lengths that decode to
\* predicted mask i; until then jdict is as it was at the call.
C7_RowOrder ==
    /\ pool.pc \in {"call", "map"} => Len(jdict) = pool.base
    /\ pool.pc = "done" =>
         /\ Len(jdict) = pool.base + Len(pool.predn)
         /\ pool.base = 1 => jdict[1] = EarlierEntry
         /\ \A i \in 1..Len(pool.predn) :
              LET e == jdict[pool.base + i]
                  b == pool.predn[i].box
              IN  /\ e.image_id = (IF pool.filename = "42" THEN 42 ELSE pool.filename)
                  /\ e.category_id = pool.predn[i].cls + 1
                  /\ e.score = pool.predn[i].conf
                  /\ e.bbox = <<b[1], b[2], b[3] - b[1], b[4] - b[2]>>
                  /\ e.segmentation.size = <<NRows, NCols>>
                  /\ Expand(e.segmentation.counts, 0) = FlattenF(pool.pred_masks[i])

\* C7 witness: two detections of different classes with different masks, the
\* second mask encoded before the first, and the call has returned.
C7_Witness ==
    /\ pool.pc = "done"
    /\ pool.finished = <<2, 1>>
    /\ pool.pred_masks[1] # pool.pred_masks[2]
    /\ pool.predn[1].cls # pool.predn[2].cls
    /\ pool.base = 1

\* C8: eval_json never ends with an exception; when the cross-check was started
\* and failed at any of its statements (import, file assertions, loading,
\* either evaluation), exactly one warning is logged and the call returns the
\* stats dict, with the accumulated statistics untouched.
C8_NonFatal ==
    /\ ev.pc # "raised"
    /\ (ev.pc = "returned" /\ ev.failure # "none") =>
         /\ ev.warnings = 1
         /\ ev.ret = ev.stats
         /\ DOMAIN ev.ret = MetricKeys
         /\ stats = ev.acc.stats /\ seen = ev.acc.seen /\ jdict = ev.acc.jdict

\* C8 witness: the cross-check was started, the annotation file was absent,
\* and eval_json has returned after logging the warning.
C8_Witness ==
    /\ ev.pc = "returned"
    /\ ev.attempted
    /\ ev.failure = "anno_file"
    /\ ev.warnings = 1

\* the entries of the stats dict at 0-based positions idxs are as given
SameAt(idxs) == \A idx \in idxs : ev.stats[Key(idx)] = ev.given[Key(idx)]

\* the entries of task i (0 box, 1 mask) hold the external values: mAP50-95
\* from eval.stats[0], mAP50 from eval.stats[1]
Overwritten(i) ==
    /\ ev.stats[Key(i * 4 + 3)] = ev.ext[i + 1][1]
    /\ ev.stats[Key(i * 4 + 2)] = ev.ext[i + 1][2]

\* C9 as stated: after every outcome of eval_json the metric values in the
\* stats it was given and the accumulated statistics are as before the call.
C9_StatsUntouched ==
    ev.pc = "returned" =>
        /\ ev.stats = ev.given
        /\ stats = ev.acc.stats /\ seen = ev.acc.seen /\ jdict = ev.acc.jdict

\* C9 amended: eval_json never changes the accumulated statistics, the seen
\* counter or jdict, nor the precision and recall entries of the stats dict;
\* the dict is unchanged when the cross-check is skipped or fails before the
\* box evaluation completes; once the box evaluation completes its mAP50 and
\* mAP50-95 entries hold the external values, and the mask entries do so only
\* if the mask evaluation completes too, else they are as given.
C9_OnlyMapOverwritten ==
    ev.pc = "returned" =>
        /\ stats = ev.acc.stats /\ seen = ev.acc.seen /\ jdict = ev.acc.jdict
        /\ DOMAIN ev.stats = MetricKeys
        /\ SameAt({0, 1, 4, 5})
        /\ (~ev.attempted \/ ev.failure \notin {"none", "eval_segm"}) => ev.stats = ev.given
        /\ (ev.attempted /\ ev.failure = "eval_segm") => Overwritten(0) /\ SameAt({6, 7})
        /\ (ev.attempted /\ ev.failure = "none") => Overwritten(0) /\ Overwritten(1)

\* C9 witness: the cross-check ran to its end on a run that recorded
\* statistics, and all four mAP entries differ from the internal values.
C9_Witness ==
    /\ ev.pc = "returned"
    /\ ev.attempted /\ ev.failure = "none"
    /\ \A idx \in {2, 3, 6, 7} : ev.stats[Key(idx)] # ev.given[Key(idx)]
    /\ Len(stats["conf"]) > 0

\* the samples processed since init_metrics that have neither a prediction
\* nor a ground-truth instance
NoInstance == SelectSeq(fed, LAMBDA s : ~HasInstance(s))

\* what holds of the counters after any sequence of samples
SeenAndRecords ==
    phase = "ready" =>
        /\ seen = Len(fed)
        /\ DOMAIN stats = StatKeys
        /\ \A k \in StatKeys : Len(stats[k]) = Len(fed) - Len(NoInstance)
        /\ \A r \in 1..Len(Recorded) :
              /\ stats["target_cls"][r] = Recorded[r].cls
              /\ Len(stats["conf"][r]) = Len(Recorded[r].pred)
        /\ Len(confusion) = (IF args.plots THEN Len(Recorded) ELSE 0)

\* what an update_metrics call over n new samples changes
SampleStep ==
    Len(fed') > Len(fed) =>
        LET new == SubSeq(fed', Len(fed) + 1, Len(fed'))
        IN  /\ seen' = seen + Len(new)
            /\ (\A i \in 1..Len(new) : ~HasInstance(new[i])) =>
                   /\ stats' = stats
                   /\ confusion' = confusion
                   /\ jdict' = jdict

\* C11: over any sequence of samples, seen grows by exactly one per sample; a
\* record is appended to every key of the statistics exactly for the samples
\* with at least one prediction or one ground-truth instance, in sample order;
\* a call whose samples have neither leaves the statistics, the confusion
\* matrix and jdict as they were.
C11_SeenAndRecords == []SeenAndRecords /\ [][SampleStep]_vars

\* C11 witness: a sample with ground truth only, a sample with a prediction
\* only and then a sample with neither have been processed: seen is 3 and
\* two records are kept.
C11_Witness ==
    /\ phase = "ready"
    /\ Len(fed) = 3
    /\ Len(fed[1].pred) = 0 /\ Len(fed[1].cls) > 0
    /\ Len(fed[2].pred) > 0 /\ Len(fed[2].cls) = 0
    /\ ~HasInstance(fed[3])
    /\ seen = 3
    /\ Len(stats["conf"]) = 2

====
